---- MODULE Spec2Model ----
(***************************************************************************)
(* Model of src/index.js: a per-identity file store over HTTP.             *)
(*                                                                         *)
(* JavaScript strings are sequences of one-character strings, so that      *)
(* split, path.join, path.dirname and path.extname are computed the way    *)
(* the code (and Node's posix path module) computes them.  File contents   *)
(* and request bodies are sequences of bytes; byte 0 is the filler the     *)
(* file system puts in a hole.                                             *)
(***************************************************************************)
EXTENDS Naturals, Sequences, FiniteSets, TLC

VARIABLES req, fs, arg, ret

vars == <<req, fs, arg, ret>>

(***************************************************************************)
(* Bounds                                                                  *)
(***************************************************************************)
MaxReq == 2          \* requests in flight at once (SpecConc)
MaxBodyLen == 2      \* length of the longest request body
MaxLen == 3          \* length of the strings given to isValidTargetDir (SpecDir)

(***************************************************************************)
(* Strings                                                                 *)
(***************************************************************************)
rootDir == <<"d", "a", "t", "a">>

Slash == "/"
Dot == "."

RECURSIVE SplitFrom(_, _, _, _)
SplitFrom(s, i, cur, acc) ==
  IF i > Len(s) THEN Append(acc, cur)
  ELSE IF s[i] = Slash THEN SplitFrom(s, i + 1, <<>>, Append(acc, cur))
  ELSE SplitFrom(s, i + 1, Append(cur, s[i]), acc)

\* String.prototype.split('/'): "" gives [""], "/a" gives ["", "a"]
Split(s) == SplitFrom(s, 1, <<>>, <<>>)

\* Array.prototype.filter(segment => segment !== '')
FilterNonEmpty(segs) == SelectSeq(segs, LAMBDA x : x # <<>>)

RECURSIVE JoinSegs(_)
\* Array.prototype.join('/')
JoinSegs(segs) ==
  IF segs = <<>> THEN <<>>
  ELSE IF Len(segs) = 1 THEN segs[1]
  ELSE segs[1] \o <<Slash>> \o JoinSegs(Tail(segs))

(***************************************************************************)
(* getContentType                                                          *)
(***************************************************************************)
getContentType(ext) ==
  IF ext = <<".", "t", "x", "t">> THEN "text/plain"
  ELSE IF ext = <<".", "h", "t", "m", "l">> THEN "text/html"
  ELSE IF ext = <<".", "j", "s", "o", "n">> THEN "application/json"
  ELSE "application/octet-stream"

(***************************************************************************)
(* isValidTargetDir                                                        *)
(***************************************************************************)
\* mutant: the filter of empty segments is forgotten
isValidTargetDirNoFilter(targetDir, nostr) ==
  LET targetSegments == Split(targetDir)
  IN  Len(targetSegments) = 1 /\ targetSegments[1] = nostr

\* mutant: the identity is expected as the second segment, below a root
isValidTargetDirTwoSegments(targetDir, nostr) ==
  LET targetSegments == FilterNonEmpty(Split(targetDir))
  IN  Len(targetSegments) = 2 /\ targetSegments[2] = nostr

isValidTargetDir(targetDir, nostr) ==
  LET targetSegments == FilterNonEmpty(Split(targetDir))
  IN  Len(targetSegments) = 1 /\ targetSegments[1] = nostr

(***************************************************************************)
(* Node's posix path module, as far as the handlers use it                 *)
(***************************************************************************)
RECURSIVE NormalizeSegs(_, _, _)
\* normalizeString: drop '' and '.', let '..' take back the segment before it
NormalizeSegs(segs, res, allowAboveRoot) ==
  IF segs = <<>> THEN res
  ELSE LET s == Head(segs)
           rest == Tail(segs)
       IN  IF s = <<>> \/ s = <<Dot>> THEN NormalizeSegs(rest, res, allowAboveRoot)
           ELSE IF s = <<Dot, Dot>>
             THEN IF res # <<>> /\ res[Len(res)] # <<Dot, Dot>>
                    THEN NormalizeSegs(rest, SubSeq(res, 1, Len(res) - 1), allowAboveRoot)
                  ELSE IF allowAboveRoot
                    THEN NormalizeSegs(rest, Append(res, s), allowAboveRoot)
                  ELSE NormalizeSegs(rest, res, allowAboveRoot)
           ELSE NormalizeSegs(rest, Append(res, s), allowAboveRoot)

\* path.normalize
pathNormalize(p) ==
  IF p = <<>> THEN <<Dot>>
  ELSE LET isAbsolute == p[1] = Slash
           trailingSeparator == p[Len(p)] = Slash
           body == JoinSegs(NormalizeSegs(Split(p), <<>>, ~isAbsolute))
       IN  IF body = <<>>
             THEN IF isAbsolute THEN <<Slash>>
                  ELSE IF trailingSeparator THEN <<Dot, Slash>> ELSE <<Dot>>
           ELSE (IF isAbsolute THEN <<Slash>> ELSE <<>>) \o body
                \o (IF trailingSeparator THEN <<Slash>> ELSE <<>>)

\* path.join: the non-empty arguments joined by '/', then normalized
pathJoin(args) ==
  LET joined == JoinSegs(SelectSeq(args, LAMBDA x : x # <<>>))
  IN  IF joined = <<>> THEN <<Dot>> ELSE pathNormalize(joined)

RECURSIVE DirEnd(_, _, _)
\* the scan of path.dirname from the end: the number of characters before the
\* last '/' that is followed by a segment; 0 - 1 is written as the string's
\* length plus one (no such '/')
DirEnd(p, i, matchedSlash) ==
  IF i < 2 THEN Len(p) + 1
  ELSE IF p[i] = Slash
    THEN IF ~matchedSlash THEN i - 1 ELSE DirEnd(p, i - 1, matchedSlash)
  ELSE DirEnd(p, i - 1, FALSE)

\* path.dirname
pathDirname(p) ==
  IF p = <<>> THEN <<Dot>>
  ELSE LET hasRoot == p[1] = Slash
           end == DirEnd(p, Len(p), TRUE)
       IN  IF end = Len(p) + 1 THEN (IF hasRoot THEN <<Slash>> ELSE <<Dot>>)
           ELSE IF hasRoot /\ end = 1 THEN <<Slash, Slash>>
           ELSE SubSeq(p, 1, end)

RECURSIVE StripTrailingSlashes(_)
StripTrailingSlashes(p) ==
  IF p # <<>> /\ p[Len(p)] = Slash
    THEN StripTrailingSlashes(SubSeq(p, 1, Len(p) - 1))
  ELSE p

\* the last path segment, trailing slashes ignored (path.basename)
pathBasename(p) ==
  LET segs == Split(StripTrailingSlashes(p))
  IN  segs[Len(segs)]

RECURSIVE LastDot(_, _)
LastDot(b, i) ==
  IF i = 0 THEN 0 ELSE IF b[i] = Dot THEN i ELSE LastDot(b, i - 1)

\* path.extname: from the last '.' of the basename, unless that '.' is the
\* basename's first character or the basename is '..'
pathExtname(p) ==
  LET b == pathBasename(p)
      d == LastDot(b, Len(b))
  IN  IF d = 0 \/ d = 1 \/ b = <<Dot, Dot>> THEN <<>>
      ELSE SubSeq(b, d, Len(b))

(***************************************************************************)
(* The authorization header                                                *)
(*                                                                         *)
(* A header value is absent (headers.authorization is undefined) or is a   *)
(* string: optionally the scheme prefix 'Nostr ', then a payload.  The     *)
(* payload may hold characters outside the base64 alphabet (garbled);      *)
(* Buffer.from skips them, so what counts is what the base64 characters    *)
(* of the payload spell, its kind:                                         *)
(*   "empty"    nothing: the empty text                                    *)
(*   "notjson"  a text that is no JSON text                                *)
(*   "json"     the JSON text of a value that is no signed event (null,    *)
(*              1, {}): verifySignature does not accept it                 *)
(*   "event"    the JSON text of a signed event with the given pubkey;     *)
(*              sigok tells whether nostr-tools' verifySignature accepts   *)
(*              the event                                                  *)
(***************************************************************************)
NoHeader ==
  [present |-> FALSE, scheme |-> FALSE, garbled |-> FALSE, kind |-> "empty",
   pubkey |-> <<>>, sigok |-> FALSE]

Header(scheme, kind, pubkey, sigok) ==
  [present |-> TRUE, scheme |-> scheme, garbled |-> FALSE, kind |-> kind,
   pubkey |-> pubkey, sigok |-> sigok]

\* the same header with characters that are not base64 put into the payload
Garbled(authorization) == [authorization EXCEPT !.garbled = TRUE]

\* authorization.replace('Nostr ', ''): what is left is the payload
StripScheme(authorization) ==
  [garbled |-> authorization.garbled, kind |-> authorization.kind,
   pubkey |-> authorization.pubkey, sigok |-> authorization.sigok]

\* Buffer.from(base64String, 'base64').toString('utf-8'): never throws;
\* characters outside the alphabet are skipped, the others are decoded
base64Decode(base64String) ==
  LET parses == base64String.kind \in {"json", "event"}
  IN  [json |-> parses,
       pubkey |-> IF base64String.kind = "event" THEN base64String.pubkey ELSE <<>>,
       sigok |-> base64String.kind = "event" /\ base64String.sigok]

\* JSON.parse throws a SyntaxError on a text that is no JSON text
JSONparseThrows(decodedString) == ~decodedString.json

JSONparse(decodedString) ==
  [pubkey |-> decodedString.pubkey, sigok |-> decodedString.sigok]

\* nostr-tools: the signature of the event verifies against event.pubkey
verifySignature(event) == event.sigok

\* mutant: the result of verifySignature is ignored
isValidAuthorizationHeaderNoVerify(authorization) ==
  IF ~authorization.present THEN [outcome |-> "throw", pubkey |-> <<>>]
  ELSE LET decodedString == base64Decode(StripScheme(authorization))
       IN  IF JSONparseThrows(decodedString) THEN [outcome |-> "throw", pubkey |-> <<>>]
           ELSE [outcome |-> "pubkey", pubkey |-> JSONparse(decodedString).pubkey]

\* outcome "throw": an exception leaves the function; "undefined": it returns
\* nothing; "pubkey": it returns event.pubkey
isValidAuthorizationHeader(authorization) ==
  IF ~authorization.present THEN [outcome |-> "throw", pubkey |-> <<>>]
  ELSE LET base64String == StripScheme(authorization)
           decodedString == base64Decode(base64String)
       IN  IF JSONparseThrows(decodedString) THEN [outcome |-> "throw", pubkey |-> <<>>]
           ELSE LET event == JSONparse(decodedString)
                IN  IF verifySignature(event)
                      THEN [outcome |-> "pubkey", pubkey |-> event.pubkey]
                    ELSE [outcome |-> "undefined", pubkey |-> <<>>]

(***************************************************************************)
(* The file system under the working directory                             *)
(*                                                                         *)
(* fs maps a normalized relative path to a directory or to a file with     *)
(* its bytes.  The working directory and the directories above it exist    *)
(* and are not listed.                                                     *)
(***************************************************************************)
DirNode == [kind |-> "dir", data |-> <<>>]
FileNode(data) == [kind |-> "file", data |-> data]

EmptyStore == [p \in {} |-> DirNode]

\* '.', '..', '../..': the working directory or a directory above it
IsCwdOrAbove(p) ==
  LET segs == Split(p)
  IN  \A i \in 1..Len(segs) : segs[i] = <<Dot>> \/ segs[i] = <<Dot, Dot>>

IsDir(f, p) == IsCwdOrAbove(p) \/ (p \in DOMAIN f /\ f[p].kind = "dir")

IsFile(f, p) == p[Len(p)] # Slash /\ p \in DOMAIN f /\ f[p].kind = "file"

\* the directory and every directory on the way to it
DirPrefixes(d) ==
  LET segs == Split(d)
  IN  {JoinSegs(SubSeq(segs, 1, k)) : k \in 1..Len(segs)}

\* fs.mkdir(d, {recursive: true}) fails when d or a directory on the way
\* to it is a file
mkdirFails(f, d) == \E q \in DirPrefixes(d) : q \in DOMAIN f /\ f[q].kind = "file"

\* the directories on the way to d that are still to be made
mkdirMissing(f, d) == {q \in DirPrefixes(d) : ~IsCwdOrAbove(q) /\ q \notin DOMAIN f}

\* one mkdir of fs.mkdir(d, {recursive: true}): the topmost missing directory
mkdirOne(f, d) ==
  LET missing == mkdirMissing(f, d)
      q == CHOOSE x \in missing : \A y \in missing : Len(x) <= Len(y)
  IN  (q :> DirNode) @@ f

\* all the mkdirs of fs.mkdir(d, {recursive: true}) at once
mkdirRecursive(f, d) ==
  LET new == {q \in DirPrefixes(d) : ~IsCwdOrAbove(q)}
  IN  [q \in DOMAIN f \cup new |-> IF q \in DOMAIN f THEN f[q] ELSE DirNode]

\* open(p, 'w') fails on a path with a trailing slash, on a directory, and
\* when the parent is no directory
openFails(f, p) == p[Len(p)] = Slash \/ IsDir(f, p) \/ ~IsDir(f, pathDirname(p))

\* mutant: the file is opened without O_TRUNC (flags 'r+' or 'a')
openForWriteNoTrunc(f, p) ==
  IF p \in DOMAIN f THEN f ELSE (p :> FileNode(<<>>)) @@ f

\* open(p, 'w'): O_WRONLY | O_CREAT | O_TRUNC
openForWrite(f, p) == (p :> FileNode(<<>>)) @@ f

RECURSIVE Zeros(_)
Zeros(n) == IF n = 0 THEN <<>> ELSE <<0>> \o Zeros(n - 1)

\* write(fd, <<byte>>) at the descriptor's own offset pos
writeAt(data, pos, byte) ==
  IF pos < Len(data) THEN [data EXCEPT ![pos + 1] = byte]
  ELSE data \o Zeros(pos - Len(data)) \o <<byte>>

(***************************************************************************)
(* Requests                                                                *)
(***************************************************************************)
Slots == 1..MaxReq

IdleReq ==
  [kind |-> "none", header |-> NoHeader, targetDir |-> <<>>, pathname |-> <<>>,
   body |-> <<>>, pc |-> "idle", status |-> 0, msg |-> "", data |-> <<>>,
   ctype |-> "", targetPath |-> <<>>, pubkey |-> <<>>, pos |-> 0,
   intact |-> FALSE, over |-> "none", ends |-> 0, resHeaders |-> {},
   err |-> FALSE, rsize |-> 0]

\* what open(p, 'w') finds at p and truncates, compared with the body to write
Overwritten(f, p, body) ==
  IF p \notin DOMAIN f THEN "none"
  ELSE IF f[p].data = body THEN "same"
  ELSE IF Len(f[p].data) > Len(body) THEN "longer"
  ELSE "other"

\* res.statusCode = status; res.end(msg)
Respond(q, status, msg) ==
  [q EXCEPT !.pc = "done", !.status = status, !.msg = msg, !.ends = @ + 1]

\* res.setHeader(name, value)
setHeader(headers, name, value) ==
  {h \in headers : h[1] # name} \cup {<<name, value>>}

\* setCorsHeaders(res): no handler of the module calls it
setCorsHeaders(headers) ==
  setHeader(setHeader(setHeader(headers,
    "Access-Control-Allow-Origin", "*"),
    "Access-Control-Allow-Methods", "GET, PUT, OPTIONS"),
    "Access-Control-Allow-Headers", "Content-Type, Authorization")

\* the corsOptions object handed to res.writeHead as the response headers:
\* one header per key, one line per element of an array value
corsOptions ==
  { <<"origin", "https://example.com">>,
    <<"methods", "GET">>, <<"methods", "PUT">>,
    <<"allowedHeaders", "Content-Type">> }

\* res.writeHead(status, headers): the given headers are merged into those
\* set before, replacing the ones of the same name
writeHead(q, status, headers) ==
  [q EXCEPT !.status = status,
            !.resHeaders = {h \in @ : \A n \in headers : n[1] # h[1]} \cup headers]

\* handleOptions: res.writeHead(204, corsOptions); res.end()
handleOptionsSync(q) ==
  [writeHead(q, 204, corsOptions) EXCEPT !.kind = "OPTIONS", !.pc = "done", !.ends = @ + 1]

\* setCorsHeaders(res), called on a response whose headers are not sent yet
SetCorsHeaders(r) ==
  /\ req[r].ends = 0
  /\ req' = [req EXCEPT ![r].resHeaders = setCorsHeaders(@)]
  /\ UNCHANGED <<fs, arg, ret>>

HandleOptions(r) ==
  /\ req[r].pc = "idle"
  /\ req' = [req EXCEPT ![r] = handleOptionsSync(@)]
  /\ UNCHANGED <<fs, arg, ret>>

\* the other write streams on the same file are no longer alone on it
Disturb(r, p, mine) ==
  [s \in Slots |->
     IF s = r THEN mine
     ELSE IF req[s].kind = "PUT" /\ req[s].targetPath = p
             /\ req[s].pc \in {"pipe", "done"}
       THEN [req[s] EXCEPT !.intact = FALSE]
     ELSE req[s]]

\* mutant: the write location is computed from targetDir, not from pathname
putTargetPathFromTargetDir(targetDir, pathname) == pathJoin(<<<<Dot>>, rootDir, targetDir>>)

\* const targetPath = path.join('.', rootDir, pathname)
putTargetPath(targetDir, pathname) == pathJoin(<<<<Dot>>, rootDir, pathname>>)

\* mutant: the two checks are collapsed into the call of isValidTargetDir
putForbiddenStructureOnly(targetDir, pubkey) == ~isValidTargetDir(targetDir, pubkey)

\* the two checks after authentication: targetDir !== pubkey, then
\* !isValidTargetDir(targetDir, pubkey)
putForbidden(targetDir, pubkey) ==
  IF targetDir # pubkey THEN TRUE ELSE ~isValidTargetDir(targetDir, pubkey)

putForbiddenMsg(targetDir, pubkey) ==
  IF targetDir # pubkey THEN "Forbidden: wrong pubkey"
  ELSE "Forbidden: Target directory structure is invalid"

UnauthorizedMsg == "Unauthorized: \"nostr\" header must be a 32 character lowercase hex string"

\* mutant: a credential is accepted once; while a request that presented it
\* is known to the server, presenting it again is answered 401
handlePutSyncOnce(q, headers, targetDir, pathname, body) ==
  LET q0 == [q EXCEPT !.kind = "PUT", !.header = headers, !.targetDir = targetDir,
                      !.pathname = pathname, !.body = body]
  IN  IF ~headers.present THEN [q0 EXCEPT !.pc = "threw"]
      ELSE LET nostr == StripScheme(headers)
               auth == isValidAuthorizationHeader(headers)
               seen == \E s \in Slots : req[s].kind = "PUT" /\ req[s].header = headers
           IN  IF auth.outcome = "throw" THEN [q0 EXCEPT !.pc = "threw"]
               ELSE IF (nostr.kind = "empty" /\ ~nostr.garbled) \/ auth.outcome = "undefined" \/ auth.pubkey = <<>>
                       \/ seen
                 THEN Respond(q0, 401, UnauthorizedMsg)
               ELSE IF putForbidden(targetDir, auth.pubkey)
                 THEN Respond([q0 EXCEPT !.pubkey = auth.pubkey], 403,
                              putForbiddenMsg(targetDir, auth.pubkey))
               ELSE [q0 EXCEPT !.pc = "mkdir", !.pubkey = auth.pubkey,
                               !.targetPath = putTargetPath(targetDir, pathname)]

\* the synchronous part of handlePut, to the call of fs.mkdir
handlePutSync(q, headers, targetDir, pathname, body) ==
  LET q0 == [q EXCEPT !.kind = "PUT", !.header = headers, !.targetDir = targetDir,
                      !.pathname = pathname, !.body = body]
  IN  IF ~headers.present THEN [q0 EXCEPT !.pc = "threw"]
      ELSE LET nostr == StripScheme(headers)
               auth == isValidAuthorizationHeader(headers)
           IN  IF auth.outcome = "throw" THEN [q0 EXCEPT !.pc = "threw"]
               ELSE IF (nostr.kind = "empty" /\ ~nostr.garbled) \/ auth.outcome = "undefined" \/ auth.pubkey = <<>>
                 THEN Respond(q0, 401, UnauthorizedMsg)
               ELSE IF putForbidden(targetDir, auth.pubkey)
                 THEN Respond([q0 EXCEPT !.pubkey = auth.pubkey], 403,
                              putForbiddenMsg(targetDir, auth.pubkey))
               ELSE [q0 EXCEPT !.pc = "mkdir", !.pubkey = auth.pubkey,
                               !.targetPath = putTargetPath(targetDir, pathname)]

\* mutant: the directory is created before the request is checked
HandlePutMkdirFirst(r, headers, targetDir, pathname, body) ==
  /\ req[r].pc = "idle"
  /\ req' = [req EXCEPT ![r] = handlePutSync(req[r], headers, targetDir, pathname, body)]
  /\ LET d == pathDirname(putTargetPath(targetDir, pathname))
     IN  fs' = IF mkdirFails(fs, d) THEN fs ELSE mkdirRecursive(fs, d)
  /\ UNCHANGED <<arg, ret>>

HandlePut(r, headers, targetDir, pathname, body) ==
  /\ req[r].pc = "idle"
  /\ req' = [req EXCEPT ![r] = handlePutSync(req[r], headers, targetDir, pathname, body)]
  /\ UNCHANGED <<fs, arg, ret>>

\* mutant: the error branch of the mkdir callback does not return
MkdirCallbackNoReturn(r) ==
  /\ req[r].kind = "PUT" /\ req[r].pc = "mkdir"
  /\ LET d == pathDirname(req[r].targetPath)
     IN  IF mkdirFails(fs, d)
           THEN /\ req' = [req EXCEPT ![r] =
                              [Respond(@, 500, "Error creating directory") EXCEPT !.pc = "open"]]
         ELSE /\ mkdirMissing(fs, d) = {}
              /\ req' = [req EXCEPT ![r].pc = "open"]
  /\ UNCHANGED <<fs, arg, ret>>

\* fs.mkdir(path.dirname(targetPath), {recursive: true}, ...) under way:
\* the directories are made one mkdir at a time, from the top, and other
\* callbacks run in between
Mkdir(r) ==
  /\ req[r].kind = "PUT" /\ req[r].pc = "mkdir"
  /\ LET d == pathDirname(req[r].targetPath)
     IN  /\ ~mkdirFails(fs, d)
         /\ mkdirMissing(fs, d) # {}
         /\ fs' = mkdirOne(fs, d)
  /\ UNCHANGED <<req, arg, ret>>

\* the callback of fs.mkdir: with the error, or when every directory is there
MkdirCallback(r) ==
  /\ req[r].kind = "PUT" /\ req[r].pc = "mkdir"
  /\ LET d == pathDirname(req[r].targetPath)
     IN  IF mkdirFails(fs, d)
           THEN req' = [req EXCEPT ![r] = Respond(@, 500, "Error creating directory")]
         ELSE /\ mkdirMissing(fs, d) = {}
              /\ req' = [req EXCEPT ![r].pc = "open"]
  /\ UNCHANGED <<fs, arg, ret>>

\* fs.createWriteStream(targetPath) opens the file; on failure the stream
\* emits 'error'
OpenStream(r) ==
  /\ req[r].kind = "PUT" /\ req[r].pc = "open"
  /\ LET p == req[r].targetPath
     IN  IF openFails(fs, p)
           THEN /\ req' = [req EXCEPT ![r] = Respond(@, 500, "Error writing file")]
                /\ fs' = fs
         ELSE /\ fs' = openForWrite(fs, p)
              /\ req' = Disturb(r, p, [req[r] EXCEPT !.pc = "pipe", !.pos = 0,
                                         !.intact = TRUE,
                                         !.over = Overwritten(fs, p, req[r].body)])
  /\ UNCHANGED <<arg, ret>>

\* req.pipe(writeStream): the next chunk of the body is written
WriteChunk(r) ==
  /\ req[r].kind = "PUT" /\ req[r].pc = "pipe"
  /\ req[r].pos < Len(req[r].body)
  /\ LET p == req[r].targetPath
     IN  /\ fs' = [fs EXCEPT ![p].data = writeAt(@, req[r].pos, req[r].body[req[r].pos + 1])]
         /\ req' = Disturb(r, p, [req[r] EXCEPT !.pos = @ + 1])
  /\ UNCHANGED <<arg, ret>>

\* mutant: 201 is sent as soon as the stream is open, without waiting 'finish'
FinishAnyTime(r) ==
  /\ req[r].kind = "PUT" /\ req[r].pc = "pipe"
  /\ req' = [req EXCEPT ![r] = Respond(@, 201, "File created")]
  /\ UNCHANGED <<fs, arg, ret>>

\* the request ended and every chunk is written: writeStream emits 'finish'
Finish(r) ==
  /\ req[r].kind = "PUT" /\ req[r].pc = "pipe"
  /\ req[r].pos = Len(req[r].body)
  /\ req' = [req EXCEPT ![r] = Respond(@, 201, "File created")]
  /\ UNCHANGED <<fs, arg, ret>>

\* the client goes away before the body is complete: the request never
\* emits 'end', pipe never ends the write stream, no handler runs again
Abort(r) ==
  /\ req[r].kind = "PUT" /\ req[r].pc = "pipe"
  /\ req[r].pos < Len(req[r].body)
  /\ req' = [req EXCEPT ![r] = [@ EXCEPT !.pc = "stalled", !.intact = FALSE, !.over = "none"]]
  /\ UNCHANGED <<fs, arg, ret>>

\* the synchronous part of handleGet
HandleGet(r, pathname) ==
  /\ req[r].pc = "idle"
  /\ req' = [req EXCEPT ![r] = [@ EXCEPT !.kind = "GET", !.pathname = pathname, !.pc = "read",
                                         !.targetPath = pathJoin(<<<<Dot>>, rootDir, pathname>>)]]
  /\ UNCHANGED <<fs, arg, ret>>

\* fs.readFile opens the file and takes its size (fstat); the open fails
\* when there is no file
readFileOpen(q, f) ==
  IF ~IsFile(f, q.targetPath) THEN [q EXCEPT !.pc = "readcb", !.err = TRUE]
  ELSE [q EXCEPT !.pc = "reading", !.rsize = Len(f[q.targetPath].data),
                 !.pos = 0, !.data = <<>>]

\* one read of fs.readFile, of one piece at the position reached: up to the
\* size taken at the open, or to the end of the file when that size was 0;
\* at the end the file is closed and the callback queued with the pieces
readFileRead(q, f) ==
  LET cur == f[q.targetPath].data
  IN  IF q.pos < Len(cur) /\ (q.rsize = 0 \/ q.pos < q.rsize)
        THEN [q EXCEPT !.data = Append(@, cur[q.pos + 1]), !.pos = @ + 1]
      ELSE [q EXCEPT !.pc = "readcb", !.err = FALSE, !.pos = 0, !.rsize = 0]

\* mutant: the file is opened for reading with a flag that creates it ('a+')
ReadFileOpenCreates(r) ==
  /\ req[r].kind = "GET" /\ req[r].pc = "read"
  /\ req' = [req EXCEPT ![r] = readFileOpen(@, fs)]
  /\ fs' = IF openFails(fs, req[r].targetPath) THEN fs
           ELSE openForWriteNoTrunc(fs, req[r].targetPath)
  /\ UNCHANGED <<arg, ret>>

\* fs.readFile(targetPath, ...) works outside the event loop, one request
\* at a time; writes of uploads fall between them
ReadFileOpen(r) ==
  /\ req[r].kind = "GET" /\ req[r].pc = "read"
  /\ req' = [req EXCEPT ![r] = readFileOpen(@, fs)]
  /\ UNCHANGED <<fs, arg, ret>>

ReadFileRead(r) ==
  /\ req[r].kind = "GET" /\ req[r].pc = "reading"
  /\ req' = [req EXCEPT ![r] = readFileRead(@, fs)]
  /\ UNCHANGED <<fs, arg, ret>>

\* mutant: the Content-Type is set before the error is looked at
getRespondTypeFirst(q) ==
  LET contentType == getContentType(pathExtname(q.targetPath))
      typed == [q EXCEPT !.ctype = contentType,
                         !.resHeaders = setHeader(@, "Content-Type", contentType)]
  IN  IF q.err THEN Respond(typed, 404, "File not found")
      ELSE [typed EXCEPT !.pc = "done", !.status = 200, !.ends = @ + 1]

\* the body of the callback (err, data) of fs.readFile
getRespond(q) ==
  IF q.err THEN Respond(q, 404, "File not found")
  ELSE LET contentType == getContentType(pathExtname(q.targetPath))
       IN  [q EXCEPT !.pc = "done", !.status = 200,
                     !.ctype = contentType,
                     !.resHeaders = setHeader(@, "Content-Type", contentType),
                     !.ends = @ + 1]

\* the callback of fs.readFile runs on the event loop
ReadFileCallback(r) ==
  /\ req[r].kind = "GET" /\ req[r].pc = "readcb"
  /\ req' = [req EXCEPT ![r] = getRespond(@)]
  /\ UNCHANGED <<fs, arg, ret>>

\* the exchange is over; the slot serves the next request
Recycle(r) ==
  /\ req[r].pc \in {"done", "threw", "stalled"}
  /\ req' = [req EXCEPT ![r] = IdleReq]
  /\ UNCHANGED <<fs, arg, ret>>

(***************************************************************************)
(* Inputs                                                                  *)
(***************************************************************************)
IdA == <<"a">>
IdB == <<"b">>

Bytes == {1, 2}

\* a long body of ones and a short body of twos
Bodies == {[i \in 1..MaxBodyLen |-> 1], <<2>>}

ValidA == Header(TRUE, "event", IdA, TRUE)
ValidB == Header(TRUE, "event", IdB, TRUE)

Headers ==
  { NoHeader,
    Header(FALSE, "empty", <<>>, FALSE),
    Header(TRUE, "empty", <<>>, FALSE),
    Header(TRUE, "json", <<>>, FALSE),
    Garbled(Header(TRUE, "json", <<>>, FALSE)),
    Garbled(Header(TRUE, "event", IdA, TRUE)),
    Header(TRUE, "notjson", <<>>, FALSE),
    Header(TRUE, "event", IdA, FALSE),
    Header(FALSE, "event", IdA, TRUE),
    ValidA, ValidB }

TargetDirs ==
  { IdA, IdB, <<>>, <<"/", "a">>, <<"a", "/">>, <<"a", "/", "b">>, <<"b", "/", "a">> }

PathA == <<"/", "a">>
PathB == <<"/", "b">>
PathNested == <<"/", "a", "/", "n", ".", "j", "s", "o", "n">>
PathTxt == <<"/", "a", ".", "t", "x", "t">>

Pathnames ==
  { PathA, PathB, PathNested, PathTxt,
    <<"/", "a", "/", ".", ".", "/", "b">>,
    <<"/", ".", ".", "/", "a">>,
    <<"/", "a", "/">> }

\* stores that earlier uploads leave behind
StoreFileA ==
  [p \in {rootDir, rootDir \o PathA} |->
     IF p = rootDir THEN DirNode ELSE FileNode(<<1, 2>>)]

StoreDirA ==
  [p \in {rootDir, rootDir \o PathA, rootDir \o PathNested} |->
     IF p = rootDir \o PathNested THEN FileNode(<<2>>) ELSE DirNode]

InitialStores == {EmptyStore, StoreFileA, StoreDirA}

NoArg == [targetDir |-> <<>>, nostr |-> <<>>]

(***************************************************************************)
(* Spec: one request, any input, on a store earlier uploads left, and a    *)
(* reader beside it                                                        *)
(***************************************************************************)
Writer == 1
Readers == {1, 2}

Init ==
  /\ req = [r \in Slots |-> IdleReq]
  /\ fs \in InitialStores
  /\ arg = NoArg
  /\ ret = "none"

PutRequest ==
  \E h \in Headers, t \in TargetDirs, p \in Pathnames, b \in Bodies :
    HandlePut(Writer, h, t, p, b)

GetRequest == \E r \in Readers, p \in Pathnames : HandleGet(r, p)

OptionsRequest == \E r \in Readers : HandleOptions(r)

\* the caller sets the CORS headers on the response of the first connection
CorsRequest == SetCorsHeaders(Writer)

Next ==
  \/ PutRequest
  \/ GetRequest
  \/ OptionsRequest
  \/ CorsRequest
  \/ Mkdir(Writer)
  \/ MkdirCallback(Writer)
  \/ OpenStream(Writer)
  \/ WriteChunk(Writer)
  \/ Finish(Writer)
  \/ Abort(Writer)
  \/ \E r \in Readers : ReadFileOpen(r)
  \/ \E r \in Readers : ReadFileRead(r)
  \/ \E r \in Readers : ReadFileCallback(r)

Spec == Init /\ [][Next]_vars

(***************************************************************************)
(* SpecConc: requests of one identity on one path, in flight together      *)
(***************************************************************************)
ConcPathnames == {PathA}

InitConc ==
  /\ req = [r \in Slots |-> IdleReq]
  /\ fs = EmptyStore
  /\ arg = NoArg
  /\ ret = "none"

PutRequestConc(r) ==
  \E p \in ConcPathnames, b \in Bodies : HandlePut(r, ValidA, IdA, p, b)

\* the slots that serve downloads beside the uploads
ConcReaders == {2}

GetRequestConc(r) == r \in ConcReaders /\ \E p \in ConcPathnames : HandleGet(r, p)

NextConc ==
  \E r \in Slots :
    \/ PutRequestConc(r)
    \/ GetRequestConc(r)
    \/ Mkdir(r)
    \/ MkdirCallback(r)
    \/ OpenStream(r)
    \/ WriteChunk(r)
    \/ Finish(r)
    \/ Abort(r)
    \/ ReadFileOpen(r)
    \/ ReadFileRead(r)
    \/ ReadFileCallback(r)
    \/ Recycle(r)

SpecConc == InitConc /\ [][NextConc]_vars

(***************************************************************************)
(* SpecDir: isValidTargetDir on every pair of short strings                *)
(***************************************************************************)
DirChars == {"a", "A", "/"}

RECURSIVE StrsOfLen(_)
StrsOfLen(n) ==
  IF n = 0 THEN {<<>>}
  ELSE {Append(s, c) : s \in StrsOfLen(n - 1), c \in DirChars}

Strs == UNION {StrsOfLen(n) : n \in 0..MaxLen}

InitDir ==
  /\ req = [r \in Slots |-> IdleReq]
  /\ fs = EmptyStore
  /\ arg \in [targetDir : Strs, nostr : Strs]
  /\ ret = "none"

CallIsValidTargetDir ==
  /\ ret = "none"
  /\ ret' = IF isValidTargetDir(arg.targetDir, arg.nostr) THEN "true" ELSE "false"
  /\ UNCHANGED <<req, fs, arg>>

NextDir == CallIsValidTargetDir

SpecDir == InitDir /\ [][NextDir]_vars

(***************************************************************************)
(* SpecAuth: uploads with varying credentials, target directories, paths   *)
(* and bodies, presented again and again                                   *)
(***************************************************************************)
AuthSlots == {1, 2}

AuthHeaders ==
  { NoHeader,
    Header(TRUE, "notjson", <<>>, FALSE),
    Header(TRUE, "event", IdA, FALSE),
    ValidA, ValidB }

AuthTargetDirs == {IdA, IdB, <<"/", "a">>}

AuthPathnames == {PathA, PathB}

InitAuth ==
  /\ req = [r \in Slots |-> IdleReq]
  /\ fs = EmptyStore
  /\ arg = NoArg
  /\ ret = "none"

PutRequestAuth(r) ==
  \E h \in AuthHeaders, t \in AuthTargetDirs, p \in AuthPathnames, b \in Bodies :
    HandlePut(r, h, t, p, b)

NextAuth ==
  \E r \in AuthSlots :
    \/ PutRequestAuth(r)
    \/ Mkdir(r)
    \/ MkdirCallback(r)
    \/ OpenStream(r)
    \/ WriteChunk(r)
    \/ Finish(r)
    \/ Recycle(r)

SpecAuth == InitAuth /\ [][NextAuth]_vars

(***************************************************************************)
(* Vocabulary of the claims                                                *)
(***************************************************************************)
IsPut(q) == q.kind = "PUT"
IsGet(q) == q.kind = "GET"

\* the header decodes to an event that verifySignature accepts
Verified(q) == IsPut(q) /\ q.header.present /\ q.header.kind = "event" /\ q.header.sigok

\* the header decodes to a well-formed event that verifySignature rejects
BadSignature(q) == IsPut(q) /\ q.header.present /\ q.header.kind = "event" /\ ~q.header.sigok

\* the request's write stream has opened (created or truncated) its file
HasOpened(q) ==
  IsPut(q) /\ (q.pc \in {"pipe", "stalled"} \/ (q.pc = "done" /\ q.status = 201))

Created(q) == IsPut(q) /\ q.pc = "done" /\ q.status = 201

\* the non-empty segments of a path
Segments(p) == FilterNonEmpty(Split(p))

\* root-directory + request-path
OnDisk(pathname) == pathJoin(<<<<Dot>>, rootDir, pathname>>)

EndsWith(p, suffix) ==
  Len(p) >= Len(suffix) /\ SubSeq(p, Len(p) - Len(suffix) + 1, Len(p)) = suffix

\* the extension table of the interface
ExpectedContentType(pathname) ==
  IF EndsWith(pathname, <<".", "t", "x", "t">>) THEN "text/plain"
  ELSE IF EndsWith(pathname, <<".", "h", "t", "m", "l">>) THEN "text/html"
  ELSE IF EndsWith(pathname, <<".", "j", "s", "o", "n">>) THEN "application/json"
  ELSE "application/octet-stream"

\* the step in which fs.readFile opens g's file
GetOpens(g) == IsGet(req[g]) /\ req[g].pc = "read" /\ req'[g].pc # "read"

\* what q's read holds so far is what a read of a file holding body holds
ReadOf(q, body) ==
  \/ /\ q.pc = "reading" /\ q.rsize = Len(body) /\ q.pos <= Len(body)
     /\ q.data = SubSeq(body, 1, q.pos)
  \/ /\ q.pc = "readcb" /\ ~q.err /\ q.data = body

\* g's read, begun in this step or under way, goes on as a read of body
GetReadsOn(g, body) ==
  /\ IsGet(req[g])
  /\ GetOpens(g) \/ (req[g].pc = "reading" /\ ReadOf(req[g], body))
  => ReadOf(req'[g], body)

\* the step in which the callback of the read answers the GET
GetCompletes(g) == IsGet(req[g]) /\ req[g].pc = "readcb" /\ req'[g].pc # "readcb"

\* this step is the 'finish' of r's write stream
PutFinishes(r) == IsPut(req[r]) /\ req[r].pc = "pipe" /\ Created(req'[r])

(***************************************************************************)
(* C1. Namespace isolation: every file a PUT creates or modifies lies at   *)
(* <root>/<P>, P the public key its own authorization header verified      *)
(* for; no request writes into another identity's namespace, whatever      *)
(* its pathname.                                                           *)
(***************************************************************************)
C1_NamespaceIsolation ==
  \A r \in Slots :
    HasOpened(req[r]) => Segments(req[r].targetPath) = <<rootDir, req[r].pubkey>>

(***************************************************************************)
(* C2. A PUT whose header decodes to a well-formed assertion that          *)
(* verifySignature rejects ends with 401 for every targetDir and           *)
(* pathname, never 403 or 201, and no identity reaches a namespace check.  *)
(***************************************************************************)
C2_BadSignatureIs401 ==
  \A r \in Slots :
    BadSignature(req[r]) =>
      /\ req[r].pc = "done"
      /\ req[r].status = 401
      /\ req[r].msg = UnauthorizedMsg
      /\ req[r].pubkey = <<>>

\* a rejected signature on a request whose targetDir is the asserted pubkey
C2_Witness ==
  \E r \in Slots :
    /\ BadSignature(req[r])
    /\ req[r].targetDir = req[r].header.pubkey
    /\ req[r].status = 401

(***************************************************************************)
(* C3. A PUT whose assertion verifies for identity A and whose target      *)
(* namespace is B, A # B, ends with 403 and never with 201.                *)
(***************************************************************************)
C3_WrongNamespaceIs403 ==
  \A r \in Slots :
    (Verified(req[r]) /\ req[r].targetDir # req[r].header.pubkey) =>
      (req[r].pc = "done" /\ req[r].status = 403)

C3_Witness ==
  \E r \in Slots :
    /\ Verified(req[r])
    /\ req[r].header.pubkey = IdA
    /\ req[r].targetDir = IdB
    /\ req[r].status = 403

(***************************************************************************)
(* C4. Every authentication failure (no header, not base64, not JSON,      *)
(* the bare prefix, a rejected signature) ends with 401, and no            *)
(* exception leaves handlePut.                                             *)
(***************************************************************************)
AuthenticationFails(q) ==
  IsPut(q) /\ (~q.header.present \/ q.header.kind # "event" \/ ~q.header.sigok)

C4_AuthFailureIs401 ==
  \A r \in Slots :
    AuthenticationFails(req[r]) => (req[r].pc = "done" /\ req[r].status = 401)

(***************************************************************************)
(* C5. Round trip: once a PUT has completed with 201 and no other write    *)
(* touched its file, a GET of the same path that opens and reads the file *)
(* after that reads the PUT's body, piece by piece, and answers 200 with   *)
(* what it read and with the Content-Type of the path's extension.         *)
(***************************************************************************)
C5_RoundTrip ==
  [][\A g \in Slots :
       /\ \A r \in Slots :
            (/\ Created(req[r]) /\ req[r].intact
             /\ req[r].pathname = req[g].pathname)
            => GetReadsOn(g, req[r].body)
       /\ (GetCompletes(g) /\ ~req[g].err)
            => (/\ req'[g].pc = "done"
                /\ req'[g].status = 200
                /\ req'[g].data = req[g].data
                /\ req'[g].ctype = ExpectedContentType(req[g].pathname))]_vars

\* the long body, put to the .json path, read back
C5_Witness ==
  \E g \in Slots, r \in Slots :
    /\ Created(req[r]) /\ req[r].pathname = PathNested
    /\ req[r].body = [i \in 1..MaxBodyLen |-> 1]
    /\ IsGet(req[g]) /\ req[g].pathname = PathNested
    /\ req[g].status = 200
    /\ req[g].data = req[r].body
    /\ req[g].ctype = "application/json"

(***************************************************************************)
(* C6. isValidTargetDir(targetDir, identity) is true exactly when the      *)
(* non-empty segments of targetDir are the one segment identity; it is     *)
(* false for the empty path and for two or more segments, and a leading    *)
(* or trailing slash changes nothing.                                      *)
(***************************************************************************)
FirstSlash(s) ==
  IF \E i \in 1..Len(s) : s[i] = Slash
    THEN CHOOSE i \in 1..Len(s) : s[i] = Slash /\ \A j \in 1..(i - 1) : s[j] # Slash
  ELSE Len(s) + 1

RECURSIVE NonEmptySegments(_)
NonEmptySegments(s) ==
  IF s = <<>> THEN <<>>
  ELSE IF Head(s) = Slash THEN NonEmptySegments(Tail(s))
  ELSE LET n == FirstSlash(s)
       IN  <<SubSeq(s, 1, n - 1)>> \o NonEmptySegments(SubSeq(s, n, Len(s)))

C6_TargetDirRule ==
  ret # "none" =>
    /\ (ret = "true") <=> (NonEmptySegments(arg.targetDir) = <<arg.nostr>>)
    /\ Len(NonEmptySegments(arg.targetDir)) # 1 => ret = "false"
    /\ isValidTargetDir(<<Slash>> \o arg.targetDir, arg.nostr) <=> (ret = "true")
    /\ isValidTargetDir(arg.targetDir \o <<Slash>>, arg.nostr) <=> (ret = "true")

C6_Witness ==
  /\ ret = "true"
  /\ arg.targetDir = <<"/", "a", "/">>
  /\ arg.nostr = <<"a">>

(***************************************************************************)
(* C7. A PUT to a request path of several segments whose first segment is  *)
(* the asserted identity is rejected with 403 and writes no file.          *)
(***************************************************************************)
NestedUnderIdentity(q) ==
  /\ Verified(q)
  /\ Len(Segments(q.pathname)) >= 2
  /\ Segments(q.pathname)[1] = q.header.pubkey

C7_NestedPathIs403 ==
  \A r \in Slots :
    NestedUnderIdentity(req[r]) => (req[r].pc = "done" /\ req[r].status = 403)

(***************************************************************************)
(* C8. A GET of a path with no file (or whose read fails) ends with 404    *)
(* and no Content-Type; handleGet throws nothing; a GET answers 200 only   *)
(* when the read succeeded.                                                *)
(***************************************************************************)
ReadSucceeds(f, p) == p \in DOMAIN f /\ f[p].kind = "file" /\ p[Len(p)] # Slash

C8_GetMissingIs404 ==
  [][\A g \in Slots :
       /\ (req[g].pc = "idle" /\ IsGet(req'[g])) => req'[g].pc = "read"
       /\ GetOpens(g) =>
            /\ req'[g].err <=> ~ReadSucceeds(fs, OnDisk(req[g].pathname))
            /\ req'[g].pc = IF req'[g].err THEN "readcb" ELSE "reading"
       /\ (IsGet(req[g]) /\ req[g].pc = "reading") =>
            (~req'[g].err /\ req'[g].pc \in {"reading", "readcb"})
       /\ GetCompletes(g) =>
            /\ req'[g].pc = "done"
            /\ IF ~req[g].err
                 THEN req'[g].status = 200
               ELSE /\ req'[g].status = 404
                    /\ req'[g].ctype = ""
                    /\ req'[g].msg = "File not found"]_vars

\* a missing .txt file: 404 and no text/plain
C8_Witness ==
  \E g \in Slots :
    /\ IsGet(req[g]) /\ req[g].pathname = PathTxt
    /\ req[g].pc = "done" /\ req[g].status = 404 /\ req[g].ctype = ""

(***************************************************************************)
(* C9. Last writer wins: when two PUTs to the same path have both          *)
(* completed with 201, the file holds exactly the body of the one whose    *)
(* write stream finished last, never a mixture or a truncation.            *)
(***************************************************************************)
C9_LastWriterWins ==
  [][\A r \in Slots, s \in Slots :
       (/\ r # s
        /\ PutFinishes(r)
        /\ Created(req[s])
        /\ req[s].targetPath = req[r].targetPath)
       => fs'[req[r].targetPath].data = req[r].body]_vars

(***************************************************************************)
(* C10. Sequential overwrite and idempotence: a PUT that no other write    *)
(* overlaps leaves exactly its body in the file, whether the file held     *)
(* the same body, a longer one or nothing, and a GET that opens and reads  *)
(* the file then returns exactly that body.                                *)
(***************************************************************************)
C10_SequentialOverwrite ==
  [][\A r \in Slots :
       /\ (PutFinishes(r) /\ req[r].intact) =>
            fs'[req[r].targetPath].data = req[r].body
       /\ \A g \in Slots :
            /\ (Created(req[r]) /\ req[r].intact
                  /\ req[r].targetPath = req[g].targetPath)
               => GetReadsOn(g, req[r].body)
            /\ (GetCompletes(g) /\ ~req[g].err)
               => (req'[g].status = 200 /\ req'[g].data = req[g].data)]_vars

\* the short body has replaced the long one and is read back
C10_Witness ==
  \E g \in Slots, r \in Slots :
    /\ Created(req[r]) /\ req[r].intact /\ req[r].over = "longer"
    /\ IsGet(req[g]) /\ req[g].status = 200
    /\ req[g].data = req[r].body
    /\ fs[req[r].targetPath].data = req[r].body

\* the same body put again and read back
C10_WitnessSame ==
  \E g \in Slots, r \in Slots :
    /\ Created(req[r]) /\ req[r].intact /\ req[r].over = "same"
    /\ IsGet(req[g]) /\ req[g].status = 200
    /\ req[g].data = req[r].body

(***************************************************************************)
(* C11. CORS: the response to OPTIONS has status 204 and carries           *)
(* Access-Control-Allow-Origin: *, Access-Control-Allow-Methods: GET, PUT, *)
(* OPTIONS and Access-Control-Allow-Headers: Content-Type, Authorization;  *)
(* the responses of handleGet and handlePut carry the same three headers   *)
(* on every outcome.                                                       *)
(***************************************************************************)
CorsHeaders ==
  { <<"Access-Control-Allow-Origin", "*">>,
    <<"Access-Control-Allow-Methods", "GET, PUT, OPTIONS">>,
    <<"Access-Control-Allow-Headers", "Content-Type, Authorization">> }

C11_CorsOnEveryResponse ==
  \A r \in Slots :
    req[r].status # 0 =>
      /\ CorsHeaders \subseteq req[r].resHeaders
      /\ req[r].kind = "OPTIONS" => req[r].status = 204

(***************************************************************************)
(* C12. Reads never mutate storage: a step of a GET, whether it ends in    *)
(* 200 or 404 and whatever runs beside it, leaves every file and           *)
(* directory as it was; the storage changes only in a step of handlePut.   *)
(***************************************************************************)
C12_ReadsNeverMutate ==
  [][/\ \A g \in Slots : (IsGet(req'[g]) /\ req'[g] # req[g]) => fs' = fs
     /\ fs' # fs =>
          \E r \in Slots :
            /\ IsPut(req[r]) /\ req[r].pc \in {"mkdir", "open", "pipe"}
            /\ req'[r] # req[r] \/ req[r].pc = "mkdir"]_vars

\* a GET answered 200 while an upload to the same file is under way
C12_Witness ==
  \E g \in Slots, r \in Slots :
    /\ IsGet(req[g]) /\ req[g].status = 200
    /\ IsPut(req[r]) /\ req[r].pc = "pipe"
    /\ req[r].targetPath = req[g].targetPath

(***************************************************************************)
(* C13. Every PUT that passes the authorization checks is answered 201 or  *)
(* 500, also when the client goes away in the middle of the upload: as     *)
(* long as such a request has no response, one of its callbacks (mkdir,    *)
(* open, write, finish) is still to run, so fair scheduling of the         *)
(* callbacks leads it to a response.                                       *)
(***************************************************************************)
Authorized(q) ==
  IsPut(q) /\ (q.pc \in {"mkdir", "open", "pipe", "stalled"} \/ q.status \in {201, 500})

C13_AuthorizedPutAnswered ==
  \A r \in Slots :
    Authorized(req[r]) =>
      \/ req[r].status \in {201, 500}
      \/ ENABLED (Mkdir(r) \/ MkdirCallback(r) \/ OpenStream(r) \/ WriteChunk(r) \/ Finish(r))

(***************************************************************************)
(* C14. Ordering of the write path: 201 is sent only by the 'finish' of    *)
(* the write stream, when the directory exists and the file holds the      *)
(* whole body; a failure of mkdir is answered 500 without opening or       *)
(* writing the file, a failure of the write stream is answered 500, and a  *)
(* request answered 500 is never answered 201 afterwards.                  *)
(***************************************************************************)
C14_WritePathOrder ==
  [][\A r \in Slots :
       IsPut(req[r]) =>
         /\ (req[r].status # 201 /\ req'[r].status = 201) =>
              /\ req[r].pc = "pipe" /\ req[r].pos = Len(req[r].body)
              /\ IsDir(fs, pathDirname(req[r].targetPath))
              /\ IsFile(fs, req[r].targetPath)
              /\ fs[req[r].targetPath].data = req[r].body
              /\ fs' = fs
         /\ (req[r].pc = "mkdir" /\ req'[r].pc \notin {"mkdir", "open"}) =>
              /\ req'[r].pc = "done" /\ req'[r].status = 500
              /\ req'[r].msg = "Error creating directory"
              /\ ~IsDir(fs, pathDirname(req[r].targetPath))
              /\ fs' = fs
         /\ (req[r].pc = "open" /\ req'[r].pc \notin {"open", "pipe"}) =>
              /\ req'[r].pc = "done" /\ req'[r].status = 500
              /\ req'[r].msg = "Error writing file"
              /\ fs' = fs
         /\ req[r].status = 500 =>
              /\ req'[r].status = 500 /\ req'[r].pc = "done"
              /\ req'[r].msg = req[r].msg
              /\ fs' = fs]_vars

\* a body of several chunks was written and answered 201
C14_Witness ==
  /\ Created(req[Writer]) /\ Len(req[Writer].body) = MaxBodyLen
  /\ fs[req[Writer].targetPath].data = req[Writer].body
  /\ req[Writer].over # "none"

\* mkdir failed: 500, and the file below the missing directory does not exist
C14_WitnessMkdir ==
  /\ IsPut(req[Writer]) /\ req[Writer].status = 500
  /\ req[Writer].msg = "Error creating directory"
  /\ req[Writer].targetPath \notin DOMAIN fs

(***************************************************************************)
(* C15. A rejected PUT has no effect on storage: the step in which         *)
(* handlePut answers 401 or 403 leaves the storage as it was, the request  *)
(* has computed no write location, and nothing it does afterwards changes  *)
(* the storage: the tree is the one from before the request.               *)
(***************************************************************************)
Rejected(q) == IsPut(q) /\ q.status \in {401, 403}

C15_RejectedPutNoEffect ==
  [][\A r \in Slots :
       Rejected(req'[r]) =>
         /\ fs' = fs
         /\ fs \in InitialStores
         /\ req'[r].pc = "done" /\ req'[r].targetPath = <<>>
         /\ Rejected(req[r]) => req'[r] = req[r]]_vars

\* a PUT below a directory that does not exist is answered 403 and the
\* directory still does not exist
C15_Witness ==
  /\ req[Writer].status = 403 /\ Verified(req[Writer])
  /\ req[Writer].pathname = PathNested
  /\ fs = EmptyStore

(***************************************************************************)
(* C16. The two authorization checks of handlePut encode the same rule:    *)
(* for every targetDir and every verified identity, targetDir === pubkey   *)
(* holds if and only if isValidTargetDir(targetDir, pubkey) is true.       *)
(***************************************************************************)
\* a verified identity is a public key: not empty, no '/'
IdentityShaped(s) == s # <<>> /\ \A i \in 1..Len(s) : s[i] # Slash

C16_ChecksEquivalent ==
  (ret # "none" /\ IdentityShaped(arg.nostr)) =>
    ((arg.targetDir = arg.nostr) <=> (ret = "true"))

(***************************************************************************)
(* C16, as the code has it: the equality check is the stronger one.  For   *)
(* a verified identity, a targetDir equal to it is accepted by             *)
(* isValidTargetDir, a targetDir accepted by isValidTargetDir is equal to  *)
(* it exactly when it holds no '/', and so a request is answered 403       *)
(* exactly when targetDir differs from the identity, always as 'wrong      *)
(* pubkey' and never as 'Target directory structure is invalid'.           *)
(***************************************************************************)
C16_EqualityIsStronger ==
  (ret # "none" /\ IdentityShaped(arg.nostr)) =>
    /\ (arg.targetDir = arg.nostr) => (ret = "true")
    /\ (ret = "true") =>
         ((arg.targetDir = arg.nostr) <=> IdentityShaped(arg.targetDir))
    /\ putForbidden(arg.targetDir, arg.nostr) <=> (arg.targetDir # arg.nostr)
    /\ putForbidden(arg.targetDir, arg.nostr) =>
         putForbiddenMsg(arg.targetDir, arg.nostr) = "Forbidden: wrong pubkey"

\* isValidTargetDir accepts a targetDir that the equality check refuses
C16_Witness ==
  /\ ret = "true"
  /\ arg.targetDir = <<"/", "a">>
  /\ arg.nostr = <<"a">>

(***************************************************************************)
(* C17. Atomic reads: a GET answered 200 while a PUT to the same file is   *)
(* in progress returns either the content the file had before that PUT     *)
(* began or the PUT's complete body, never an empty or partly written      *)
(* file.                                                                   *)
(***************************************************************************)
\* the contents the file at p can have had before the one PUT of Spec began
BeforeContents(p) ==
  {st[p].data : st \in {x \in InitialStores : IsFile(x, p)}}

C17_AtomicReads ==
  [][\A g \in Slots :
       (/\ GetCompletes(g) /\ req'[g].status = 200
        /\ IsPut(req[Writer]) /\ req[Writer].pc = "pipe"
        /\ req[Writer].targetPath = req[g].targetPath)
       => \/ req'[g].data = req[Writer].body
          \/ req'[g].data \in BeforeContents(req[g].targetPath)]_vars

(***************************************************************************)
(* C18. Exactly-once response: a handler that does not throw ends the      *)
(* response at most once and with a single status.  For a PUT the          *)
(* outcomes 401, 403, 500 (mkdir), 500 (write error) and 201 exclude each  *)
(* other, for a GET 404 and 200 do: once a status is sent, neither the     *)
(* status nor the message changes and the response is not ended again.     *)
(***************************************************************************)
C18_ExactlyOnce ==
  [][\A r \in Slots :
       /\ req'[r].ends <= 1
       /\ (req'[r].ends = 1) <=> (req'[r].status # 0)
       /\ IsPut(req'[r]) => req'[r].status \in {0, 401, 403, 500, 201}
       /\ IsGet(req'[r]) => req'[r].status \in {0, 404, 200}
       /\ req[r].status # 0 =>
            /\ req'[r].status = req[r].status
            /\ req'[r].msg = req[r].msg
            /\ req'[r].ends = req[r].ends
            /\ req'[r].pc = "done"]_vars

\* the write stream failed after mkdir succeeded: one response, 500
C18_Witness ==
  /\ IsPut(req[Writer]) /\ req[Writer].status = 500
  /\ req[Writer].msg = "Error writing file"
  /\ req[Writer].ends = 1
  /\ \E g \in Readers : IsGet(req[g]) /\ req[g].ends = 1

(***************************************************************************)
(* C19. Authorization depends only on the credential and the target        *)
(* directory: two PUT requests with the same authorization header and the  *)
(* same targetDir reach the same authorization outcome (throw, 401, 403 or *)
(* proceed to write), whatever their bodies and pathnames and however      *)
(* often the header was presented before; a credential accepted once is    *)
(* accepted at every replay.                                               *)
(***************************************************************************)
AuthOutcome(q) ==
  IF q.pc = "threw" THEN "throw"
  ELSE IF q.status = 401 THEN "401"
  ELSE IF q.status = 403 THEN "403"
  ELSE "proceed"

C19_AuthByCredentialAndDir ==
  \A r \in Slots, s \in Slots :
    (/\ IsPut(req[r]) /\ IsPut(req[s])
     /\ req[r].header = req[s].header
     /\ req[r].targetDir = req[s].targetDir)
    => AuthOutcome(req[r]) = AuthOutcome(req[s])

\* the same credential, accepted for two uploads that differ in path and
\* body, the second presented after the first was completed
C19_Witness ==
  \E r \in Slots, s \in Slots :
    /\ Created(req[r]) /\ IsPut(req[s]) /\ req[s].pc = "mkdir"
    /\ req[r].header = req[s].header /\ req[r].targetDir = req[s].targetDir
    /\ req[r].pathname # req[s].pathname /\ req[r].body # req[s].body

====
